---- MODULE Spec2Model ----
(***************************************************************************)
(* Initial execution-context construction for the Renesas SH-1 port:       *)
(* up_initial_state() of arch/renesas/src/sh1/sh1_initialstate.c.          *)
(*                                                                         *)
(* A TCB is handed to up_initial_state() once, after the scheduler has     *)
(* filled in pid, start and the stack fields.  The routine resolves the    *)
(* stack of the idle task, wipes the register context image and sets the   *)
(* stack-pointer, program-counter and status slots.                        *)
(*                                                                         *)
(* All addresses and register values are uint32_t.  A 32-bit value is kept *)
(* as a pair <<hi, lo>> of 16-bit limbs, so that the arithmetic is the     *)
(* arithmetic of the target (modulo 2^32) at its real width.               *)
(***************************************************************************)
EXTENDS Integers, FiniteSets, Sequences, TLC

VARIABLES
    CONFIG_IDLETHREAD_STACKSIZE, \* build-time: size of the static idle area
    CONFIG_SUPPRESS_INTERRUPTS,  \* build-time: tasks start with interrupts masked
    CONFIG_BUILD_KERNEL,         \* build-time: privilege-separated kernel build
    g_idle_topstack,             \* top address of the static idle-stack area
    sr,                          \* the processor's live status register
    tcb,                         \* the task control blocks, by table slot
    call                         \* history: per TCB, the call that built it

vars == <<CONFIG_IDLETHREAD_STACKSIZE, CONFIG_SUPPRESS_INTERRUPTS,
          CONFIG_BUILD_KERNEL, g_idle_topstack, sr, tcb, call>>

----------------------------------------------------------------------------
(* uint32_t as two 16-bit limbs *)

Limb == 2 ^ 16

U32(hi, lo) == <<hi, lo>>

Zero32 == U32(0, 0)

\* a + b modulo 2^32
Add32(a, b) ==
    LET s == a[2] + b[2]
    IN  <<(a[1] + b[1] + (s \div Limb)) % Limb, s % Limb>>

\* a - b modulo 2^32
Sub32(a, b) ==
    LET borrow == IF a[2] < b[2] THEN 1 ELSE 0
    IN  <<(a[1] - b[1] - borrow + 2 * Limb) % Limb, (a[2] - b[2] + Limb) % Limb>>

\* unsigned comparison
Lt32(a, b) == a[1] < b[1] \/ (a[1] = b[1] /\ a[2] < b[2])

Le32(a, b) == a = b \/ Lt32(a, b)

RECURSIVE BitAnd(_, _)
BitAnd(x, y) ==
    IF x = 0 \/ y = 0 THEN 0
    ELSE (x % 2) * (y % 2) + 2 * BitAnd(x \div 2, y \div 2)

RECURSIVE BitOr(_, _)
BitOr(x, y) ==
    IF x = 0 THEN y
    ELSE IF y = 0 THEN x
    ELSE (IF x % 2 = 1 \/ y % 2 = 1 THEN 1 ELSE 0) + 2 * BitOr(x \div 2, y \div 2)

\* a | b
Or32(a, b) == <<BitOr(a[1], b[1]), BitOr(a[2], b[2])>>

\* a & b
And32(a, b) == <<BitAnd(a[1], b[1]), BitAnd(a[2], b[2])>>

\* ~a
Not32(a) == <<Limb - 1 - a[1], Limb - 1 - a[2]>>

----------------------------------------------------------------------------
(* The register context image *)

\* Number of general-purpose slots of the image.
NumGeneralRegs == 3

REG_SP == <<"SP", 0>>

REG_PC == <<"PC", 0>>

REG_SR == <<"SR", 0>>

\* The general-purpose slots R1, R2, ...
GeneralRegs == {<<"R", n>> : n \in 1 .. NumGeneralRegs}

\* The slots of xcp->regs[], by symbolic role.
Regs == {REG_SP, REG_PC, REG_SR} \cup GeneralRegs

\* The interrupt-mask bits of the status register, 0x000000f0.
IMASK == U32(0, 240)

\* sizeof(struct task_info_s), 0x40
sizeof_task_info_s == U32(0, 64)

----------------------------------------------------------------------------
(* Inputs *)

TcbSlots == {1, 2}

\* Task ids; 0 is the idle task.
Pids == {0, 5, 6}

\* Entry points: 0x00001000, 0x00010200
Starts == {U32(0, 4096), U32(1, 512)}

\* Stack regions as the allocator hands them out:
\* {alloc 0x2000, base 0x2000, size 0x400}, {alloc 0x3000, base 0x3010, size 0x7f0}
StackRegions ==
    { [alloc |-> U32(0, 8192),  base |-> U32(0, 8192),  size |-> U32(0, 1024)],
      [alloc |-> U32(0, 12288), base |-> U32(0, 12304), size |-> U32(0, 2032)] }

\* What every slot of a not yet initialised image may hold: 0, 0xdeadbeef
PriorContents == {Zero32, U32(57005, 48879)}

\* Status register values: 0x000000f0, 0x00000001, 0x00000353
SrValues == {U32(0, 240), U32(0, 1), U32(0, 851)}

\* Configured idle-stack sizes: 0x1000, 0x40, 0x20
IdleStackSizes == {U32(0, 4096), U32(0, 64), U32(0, 32)}

\* Top of the idle area: 0x00008000, 0x0f001000
IdleTops == {U32(0, 32768), U32(3840, 4096)}

FreeTcb ==
    [state |-> "free", pid |-> 0, start |-> Zero32,
     stack_alloc_ptr |-> Zero32, stack_base_ptr |-> Zero32,
     adj_stack_size |-> Zero32,
     xcp |-> [regs |-> [r \in Regs |-> Zero32]]]

NoCall == [made |-> FALSE]

----------------------------------------------------------------------------
(* up_initial_state *)

\* Variant: the #error guard is missing, every configuration builds.
BuildAccepted_NoGuard == TRUE

\* #ifdef CONFIG_BUILD_KERNEL / #error: the file only compiles without it.
BuildAccepted == ~CONFIG_BUILD_KERNEL

\* stc sr, %0
up_getsr == sr

\* Variant: the idle stack takes the whole idle area, nothing is reserved.
IdleStack_WholeArea(t) ==
    LET alloc == Sub32(g_idle_topstack, CONFIG_IDLETHREAD_STACKSIZE)
    IN  [t EXCEPT !.stack_alloc_ptr = alloc,
                  !.stack_base_ptr  = alloc,
                  !.adj_stack_size  = CONFIG_IDLETHREAD_STACKSIZE]

\* Variant: the idle stack is laid out from the top of the idle area upward.
IdleStack_FromTop(t) ==
    [t EXCEPT !.stack_alloc_ptr = g_idle_topstack,
              !.stack_base_ptr  = g_idle_topstack,
              !.adj_stack_size  = Sub32(CONFIG_IDLETHREAD_STACKSIZE,
                                        sizeof_task_info_s)]

\* The body of the pid == 0 branch.
IdleStack(t) ==
    LET alloc == Sub32(g_idle_topstack, CONFIG_IDLETHREAD_STACKSIZE)
    IN  [t EXCEPT !.stack_alloc_ptr = alloc,
                  !.stack_base_ptr  = alloc,
                  !.adj_stack_size  = Sub32(CONFIG_IDLETHREAD_STACKSIZE,
                                            sizeof_task_info_s)]

\* Variant: the idle branch is never taken.
ResolveStack_Never(t) == t

\* Variant: the idle branch is taken for every task.
ResolveStack_Always(t) == IdleStack(t)

\* if (tcb->pid == 0) { ... }
ResolveStack(t) == IF t.pid = 0 THEN IdleStack(t) ELSE t

\* Variant: the image is not wiped.
memset_xcp_Skipped(xcp) == xcp

\* Variant: only the three distinguished slots are wiped.
memset_xcp_ThreeSlots(xcp) ==
    [regs |-> [r \in DOMAIN xcp.regs |->
                  IF r \in {REG_SP, REG_PC, REG_SR} THEN Zero32 ELSE xcp.regs[r]]]

\* memset(xcp, 0, sizeof(struct xcptcontext))
memset_xcp(xcp) == [regs |-> [r \in DOMAIN xcp.regs |-> Zero32]]

\* Variant: the stack pointer is the base of the stack, not its top.
InitialSP_Base(t) == t.stack_base_ptr

\* (uint32_t)tcb->stack_base_ptr + tcb->adj_stack_size
InitialSP(t) == Add32(t.stack_base_ptr, t.adj_stack_size)

\* Variant: the idle task gets no entry point.
InitialPC_NotIdle(t) == IF t.pid = 0 THEN Zero32 ELSE t.start

\* (uint32_t)tcb->start
InitialPC(t) == t.start

\* Variant: the unmasked configuration keeps the live mask bits.
InitialSR_NoClear(v) ==
    IF CONFIG_SUPPRESS_INTERRUPTS
    THEN Or32(v, IMASK)
    ELSE v

\* up_getsr() | 0x000000f0  or  up_getsr() & ~0x000000f0
InitialSR(v) ==
    IF CONFIG_SUPPRESS_INTERRUPTS
    THEN Or32(v, IMASK)
    ELSE And32(v, Not32(IMASK))

\* The TCB as up_initial_state leaves it, v being what up_getsr() returned.
InitialState(t, v) ==
    LET t1 == ResolveStack(t)
        x0 == memset_xcp(t1.xcp)
        x1 == [x0 EXCEPT !.regs[REG_SP] = InitialSP(t1)]
        x2 == [x1 EXCEPT !.regs[REG_PC] = InitialPC(t1)]
        x3 == [x2 EXCEPT !.regs[REG_SR] = InitialSR(v)]
    IN  [t1 EXCEPT !.xcp = x3, !.state = "built"]

up_initial_state(i) ==
    /\ BuildAccepted
    /\ tcb[i].state = "created"
    /\ LET v == up_getsr
       IN  /\ tcb' = [tcb EXCEPT ![i] = InitialState(tcb[i], v)]
           /\ call' = [call EXCEPT ![i] =
                          [made |-> TRUE, arg |-> tcb[i], getsr |-> v,
                           topstack |-> g_idle_topstack]]
    /\ UNCHANGED <<CONFIG_IDLETHREAD_STACKSIZE, CONFIG_SUPPRESS_INTERRUPTS,
                   CONFIG_BUILD_KERNEL, g_idle_topstack, sr>>

----------------------------------------------------------------------------
(* The callers: the scheduler creating a TCB, the processor's status *)

\* The scheduler fills in a TCB before the builder runs.
CreateTcb(i, pid, start, region, prior) ==
    /\ BuildAccepted
    /\ tcb[i].state = "free"
    /\ \A j \in TcbSlots : tcb[j].state # "free" => tcb[j].pid # pid
    /\ tcb' = [tcb EXCEPT ![i] =
                  [state |-> "created", pid |-> pid, start |-> start,
                   stack_alloc_ptr |-> region.alloc,
                   stack_base_ptr |-> region.base,
                   adj_stack_size |-> region.size,
                   xcp |-> [regs |-> [r \in Regs |-> prior]]]]
    /\ UNCHANGED <<CONFIG_IDLETHREAD_STACKSIZE, CONFIG_SUPPRESS_INTERRUPTS,
                   CONFIG_BUILD_KERNEL, g_idle_topstack, sr, call>>

\* The live status register changes between calls (interrupt masking, T bit).
SetSR(v) ==
    /\ BuildAccepted
    /\ v # sr
    /\ sr' = v
    /\ UNCHANGED <<CONFIG_IDLETHREAD_STACKSIZE, CONFIG_SUPPRESS_INTERRUPTS,
                   CONFIG_BUILD_KERNEL, g_idle_topstack, tcb, call>>

Init ==
    /\ CONFIG_IDLETHREAD_STACKSIZE \in IdleStackSizes
    /\ CONFIG_SUPPRESS_INTERRUPTS \in BOOLEAN
    /\ CONFIG_BUILD_KERNEL \in BOOLEAN
    /\ g_idle_topstack \in IdleTops
    /\ sr \in SrValues
    /\ tcb = [i \in TcbSlots |-> FreeTcb]
    /\ call = [i \in TcbSlots |-> NoCall]

Next ==
    \/ \E i \in TcbSlots, pid \in Pids, start \in Starts,
          region \in StackRegions, prior \in PriorContents :
          CreateTcb(i, pid, start, region, prior)
    \/ \E i \in TcbSlots : up_initial_state(i)
    \/ \E v \in SrValues : SetSR(v)

Spec == Init /\ [][Next]_vars

----------------------------------------------------------------------------
(* Vocabulary of the properties *)

Built(i) == tcb[i].state = "built"

Idle(i) == tcb[i].pid = 0

regs(i) == tcb[i].xcp.regs

\* stack_base_ptr + adj_stack_size of TCB i, as a uint32_t
StackTop(i) == Add32(tcb[i].stack_base_ptr, tcb[i].adj_stack_size)

\* The low end of the static idle area.
IdleAreaBase == Sub32(g_idle_topstack, CONFIG_IDLETHREAD_STACKSIZE)

\* The low end of the block of sizeof(struct task_info_s) bytes that ends at
\* the top of the idle area.
InfoBlockBase == Sub32(g_idle_topstack, sizeof_task_info_s)

\* [base, base + size) lies in [lo, hi), the addresses taken as integers
\* (no wrap-around): lo <= base <= hi and size <= hi - base.
Inside(base, size, lo, hi) ==
    /\ Le32(lo, base)
    /\ Le32(base, hi)
    /\ Le32(size, Sub32(hi, base))

\* The value of the four interrupt-mask bits (bits 4..7) of v.
MaskBits(v) == (v[2] \div 16) % 16

\* v and w agree on every bit outside the interrupt mask.
SameOutsideMask(v, w) ==
    /\ v[1] = w[1]
    /\ v[2] \div 256 = w[2] \div 256
    /\ v[2] % 16 = w[2] % 16

----------------------------------------------------------------------------
(* C1 .. C3: the three invariants of the register context image *)

\* C1: after up_initial_state, for every task id, regs[REG_SP] equals
\* stack_base_ptr + adj_stack_size as the TCB holds them after the call.
C1_StackTop == \A i \in TcbSlots : Built(i) => regs(i)[REG_SP] = StackTop(i)

\* An idle and an ordinary task are built; the ordinary one, on the stack
\* {base 0x2000, size 0x400}, has the stack pointer 0x2400.
C1_Witness ==
    \E i, j \in TcbSlots :
        /\ Built(i) /\ Idle(i)
        /\ Built(j) /\ ~Idle(j)
        /\ tcb[j].stack_base_ptr = U32(0, 8192)
        /\ regs(j)[REG_SP] = U32(0, 9216)

\* C2: after up_initial_state, regs[REG_PC] equals tcb->start for every task
\* id, the idle task included.
C2_EntryPoint == \A i \in TcbSlots : Built(i) => regs(i)[REG_PC] = tcb[i].start

\* The idle task is built with the entry point 0x00010200 in its PC slot.
C2_Witness ==
    \E i \in TcbSlots :
        Built(i) /\ Idle(i) /\ regs(i)[REG_PC] = U32(1, 512)

\* C3: whatever the image held before the call, every slot other than the
\* stack-pointer, program-counter and status slots is zero after it.
C3_OtherSlotsZero ==
    \A i \in TcbSlots :
        Built(i) =>
            \A r \in (DOMAIN regs(i)) \ {REG_SP, REG_PC, REG_SR} :
                regs(i)[r] = Zero32

\* A TCB whose image held 0xdeadbeef in every slot has been built.
C3_Witness ==
    \E i \in TcbSlots :
        /\ Built(i)
        /\ \A r \in Regs : call[i].arg.xcp.regs[r] = U32(57005, 48879)
        /\ \A r \in GeneralRegs : regs(i)[r] = Zero32

----------------------------------------------------------------------------
(* C4, C5, C9: the stack of the idle task *)

\* C4 as stated: for the idle task, stack_base_ptr + adj_stack_size equals
\* g_idle_topstack, and so does the stack-pointer slot.
C4_IdleTopIsAreaTop ==
    \A i \in TcbSlots :
        (Built(i) /\ Idle(i)) =>
            /\ StackTop(i) = g_idle_topstack
            /\ regs(i)[REG_SP] = g_idle_topstack

\* C4 as amended: for the idle task the resolved stack starts at the base of
\* the idle area and ends one auxiliary block below its top:
\* stack_base_ptr = g_idle_topstack - CONFIG_IDLETHREAD_STACKSIZE and
\* stack_base_ptr + adj_stack_size = g_idle_topstack - sizeof(struct
\* task_info_s), which is the value of the stack-pointer slot.
C4_IdleTopBelowInfoBlock ==
    \A i \in TcbSlots :
        (Built(i) /\ Idle(i)) =>
            /\ tcb[i].stack_base_ptr = IdleAreaBase
            /\ StackTop(i) = InfoBlockBase
            /\ regs(i)[REG_SP] = InfoBlockBase

\* Idle size 0x1000, idle top 0x8000: the idle task is built with the stack
\* size 0xfc0 and the stack pointer 0x7fc0.
C4_Witness ==
    \E i \in TcbSlots :
        /\ Built(i) /\ Idle(i)
        /\ CONFIG_IDLETHREAD_STACKSIZE = U32(0, 4096)
        /\ g_idle_topstack = U32(0, 32768)
        /\ tcb[i].adj_stack_size = U32(0, 4032)
        /\ regs(i)[REG_SP] = U32(0, 32704)

\* C5: for the idle task the stack fields do not depend on what the caller
\* supplied, and adj_stack_size is CONFIG_IDLETHREAD_STACKSIZE -
\* sizeof(struct task_info_s); for any other task adj_stack_size is the
\* caller's.
C5_IdleStackSize ==
    \A i \in TcbSlots :
        Built(i) =>
            IF Idle(i)
            THEN /\ tcb[i].adj_stack_size =
                        Sub32(CONFIG_IDLETHREAD_STACKSIZE, sizeof_task_info_s)
                 /\ tcb[i].stack_base_ptr = IdleAreaBase
                 /\ tcb[i].stack_alloc_ptr = IdleAreaBase
            ELSE tcb[i].adj_stack_size = call[i].arg.adj_stack_size

\* The idle task was passed in with the region {base 0x3010, size 0x7f0} and
\* is built, with idle size 0x1000, on a stack of 0xfc0 bytes.
C5_Witness ==
    \E i \in TcbSlots :
        /\ Built(i) /\ Idle(i)
        /\ call[i].arg.stack_base_ptr = U32(0, 12304)
        /\ call[i].arg.adj_stack_size = U32(0, 2032)
        /\ CONFIG_IDLETHREAD_STACKSIZE = U32(0, 4096)
        /\ tcb[i].adj_stack_size = U32(0, 4032)

\* The idle stack region lies in the idle area, below the block of
\* sizeof(struct task_info_s) bytes at the top of the area, which lies in the
\* area too.
IdleStackClearOfInfoBlock(i) ==
    /\ Inside(tcb[i].stack_base_ptr, tcb[i].adj_stack_size,
              IdleAreaBase, g_idle_topstack)
    /\ Inside(InfoBlockBase, sizeof_task_info_s, IdleAreaBase, g_idle_topstack)
    /\ Inside(tcb[i].stack_base_ptr, tcb[i].adj_stack_size,
              IdleAreaBase, InfoBlockBase)

\* C9 as stated: for the idle task the resolved stack region lies inside the
\* idle area and is disjoint from a reserved block of sizeof(struct
\* task_info_s) bytes of that area, for every configured idle-stack size.
C9_IdleStackInAreaAnySize ==
    \A i \in TcbSlots : (Built(i) /\ Idle(i)) => IdleStackClearOfInfoBlock(i)

\* C9 as amended: for every configured idle-stack size the initial stack
\* pointer of the idle task is the low end of the block of sizeof(struct
\* task_info_s) bytes that ends at g_idle_topstack, so that a stack growing
\* downward from it never enters that block; and when the configured size is
\* at least sizeof(struct task_info_s), the resolved region and the block
\* both lie inside the idle area and are disjoint.
C9_IdleStackInAreaWhenItFits ==
    \A i \in TcbSlots :
        (Built(i) /\ Idle(i)) =>
            /\ regs(i)[REG_SP] = InfoBlockBase
            /\ Le32(sizeof_task_info_s, CONFIG_IDLETHREAD_STACKSIZE) =>
                   IdleStackClearOfInfoBlock(i)

\* The idle task is built in an idle area of 0x1000 bytes below 0x0f001000:
\* its region is [0x0f000000, 0x0f000fc0), the block [0x0f000fc0, 0x0f001000).
C9_Witness ==
    \E i \in TcbSlots :
        /\ Built(i) /\ Idle(i)
        /\ CONFIG_IDLETHREAD_STACKSIZE = U32(0, 4096)
        /\ g_idle_topstack = U32(3840, 4096)
        /\ tcb[i].stack_base_ptr = U32(3840, 0)
        /\ StackTop(i) = U32(3840, 4032)
        /\ IdleStackClearOfInfoBlock(i)

----------------------------------------------------------------------------
(* C6 .. C8, C10: status slot, determinism, configurations, frame *)

\* C6: the status slot is the value v that up_getsr() returned during the
\* call with all four interrupt-mask bits set (CONFIG_SUPPRESS_INTERRUPTS) or
\* all four clear (otherwise); every other bit is v's, whatever the task.
C6_StatusFromLiveSR ==
    \A i \in TcbSlots :
        Built(i) =>
            /\ MaskBits(regs(i)[REG_SR]) =
                   (IF CONFIG_SUPPRESS_INTERRUPTS THEN 15 ELSE 0)
            /\ SameOutsideMask(regs(i)[REG_SR], call[i].getsr)

\* Built while the live status register was 0x00000353: the slot holds
\* 0x000003f3 in the masked configuration, 0x00000303 in the unmasked one.
C6_Witness ==
    \E i \in TcbSlots :
        /\ Built(i)
        /\ call[i].getsr = U32(0, 851)
        /\ regs(i)[REG_SR] =
               (IF CONFIG_SUPPRESS_INTERRUPTS THEN U32(0, 1011) ELSE U32(0, 771))

\* Two TCBs received the same inputs of the builder.
SameInputs(i, j) ==
    /\ tcb[i].start = tcb[j].start
    /\ call[i].arg.start = call[j].arg.start
    /\ call[i].arg.stack_alloc_ptr = call[j].arg.stack_alloc_ptr
    /\ call[i].arg.stack_base_ptr = call[j].arg.stack_base_ptr
    /\ call[i].arg.adj_stack_size = call[j].arg.adj_stack_size
    /\ call[i].getsr = call[j].getsr

\* C7: two non-idle TCBs built with the same entry point, the same stack
\* region and the same live status value hold identical register context
\* images, whatever either image held before its call.
C7_SameInputsSameImage ==
    \A i, j \in TcbSlots :
        (Built(i) /\ Built(j) /\ ~Idle(i) /\ ~Idle(j) /\ SameInputs(i, j)) =>
            tcb[i].xcp = tcb[j].xcp

\* Two non-idle TCBs with the same inputs, one passed in with a zeroed image
\* and one with 0xdeadbeef in every slot, are both built.
C7_Witness ==
    \E i, j \in TcbSlots :
        /\ Built(i) /\ Built(j) /\ ~Idle(i) /\ ~Idle(j) /\ SameInputs(i, j)
        /\ call[i].arg.xcp.regs[REG_SP] = Zero32
        /\ call[j].arg.xcp.regs[REG_SP] = U32(57005, 48879)
        /\ tcb[i].xcp = tcb[j].xcp

\* C8: with CONFIG_BUILD_KERNEL there is no builder and no task context is
\* ever constructed; in every other configuration the builder can always run
\* on a created TCB and leaves the three distinguished slots set.
C8_KernelBuildRejected ==
    \A i \in TcbSlots :
        IF CONFIG_BUILD_KERNEL
        THEN tcb[i] = FreeTcb /\ ~call[i].made
        ELSE /\ tcb[i].state = "created" => ENABLED up_initial_state(i)
             /\ Built(i) =>
                    /\ call[i].made
                    /\ regs(i)[REG_SP] = StackTop(i)
                    /\ regs(i)[REG_PC] = call[i].arg.start
                    /\ MaskBits(regs(i)[REG_SR]) \in {0, 15}

\* In a configuration without CONFIG_BUILD_KERNEL every TCB has been built.
C8_Witness ==
    /\ ~CONFIG_BUILD_KERNEL
    /\ \A i \in TcbSlots : Built(i) /\ call[i].made

\* The step that builds TCB i.
BuildStep(i) == tcb[i].state = "created" /\ tcb'[i].state = "built"

\* C10: a call changes nothing but the TCB passed in; of that TCB it keeps
\* pid and start, for a non-idle task also stack_alloc_ptr, stack_base_ptr
\* and adj_stack_size, and for the idle task it leaves stack_alloc_ptr equal
\* to stack_base_ptr; g_idle_topstack, the status register and the
\* configuration are not written.
C10_Frame ==
    [][\A i \in TcbSlots :
          BuildStep(i) =>
              /\ \A j \in TcbSlots \ {i} : tcb'[j] = tcb[j]
              /\ g_idle_topstack' = g_idle_topstack
              /\ sr' = sr
              /\ CONFIG_IDLETHREAD_STACKSIZE' = CONFIG_IDLETHREAD_STACKSIZE
              /\ CONFIG_SUPPRESS_INTERRUPTS' = CONFIG_SUPPRESS_INTERRUPTS
              /\ CONFIG_BUILD_KERNEL' = CONFIG_BUILD_KERNEL
              /\ tcb'[i].pid = tcb[i].pid
              /\ tcb'[i].start = tcb[i].start
              /\ IF tcb[i].pid # 0
                 THEN /\ tcb'[i].stack_alloc_ptr = tcb[i].stack_alloc_ptr
                      /\ tcb'[i].stack_base_ptr = tcb[i].stack_base_ptr
                      /\ tcb'[i].adj_stack_size = tcb[i].adj_stack_size
                 ELSE tcb'[i].stack_alloc_ptr = tcb'[i].stack_base_ptr]_vars

\* A non-idle task passed in with stack_alloc_ptr 0x3000 below stack_base_ptr
\* 0x3010 is built and still holds both, next to a built idle task whose
\* stack fields were replaced.
C10_Witness ==
    \E i, j \in TcbSlots :
        /\ Built(i) /\ ~Idle(i)
        /\ tcb[i].stack_alloc_ptr = U32(0, 12288)
        /\ tcb[i].stack_base_ptr = U32(0, 12304)
        /\ call[i].arg.stack_alloc_ptr = U32(0, 12288)
        /\ Built(j) /\ Idle(j)
        /\ tcb[j].stack_alloc_ptr = tcb[j].stack_base_ptr
        /\ call[j].arg.stack_base_ptr # tcb[j].stack_base_ptr

====
